---- MODULE Spec2Model ----
(***************************************************************************)
(* Model of chuzhov/py_postgres, src/postgre.py: the self-rotating CSV     *)
(* audit logger (PostgresLogger) and the data-access handler               *)
(* (PostgresHandler) that runs one statement batch per scoped connection.  *)
(*                                                                         *)
(* The file system is a function from a generation index to a file:       *)
(* index 0 is the active file log/db_log.csv, index i is db_log.csv.i.     *)
(* A file is a record [exists, lines]; a line is a CSV row.  The size of   *)
(* a file (os.path.getsize) is counted in rows, one unit per row.          *)
(* The clock stands for datetime.now(): it ticks once per reading.         *)
(***************************************************************************)
EXTENDS Integers, Sequences, FiniteSets, TLC

VARIABLES files, clock, lastLog, hist, qin, qout, db, conns, last, race

vars == <<files, clock, lastLog, hist, qin, qout, db, conns, last, race>>

\* ------------------------------------------------------------------ bounds
\* rotation threshold, in rows (self.max_log_size, scaled down from 5 MiB)
max_log_size == 1
\* number of Logger calls explored by the Logger specification
MaxCalls == 6
\* number of Handler invocations explored by the Handler specification
MaxOps == 2

\* -------------------------------------------------------- program constants
max_backups == 3

\* ------------------------------------------------------------- file system
NoFile == [exists |-> FALSE, lines |-> <<>>]

HeaderRow ==
  [hdr |-> TRUE, ts |-> 0, operation |-> "operation", table |-> "table",
   status |-> "status", affected_rows |-> 0, error |-> "error"]

LogRow(ts, operation, table, status, affected_rows, error) ==
  [hdr |-> FALSE, ts |-> ts, operation |-> operation, table |-> table,
   status |-> status, affected_rows |-> affected_rows, error |-> error]

\* the names db_log.csv, db_log.csv.1 .. db_log.csv.(max_backups + 1)
Generations == 0 .. max_backups + 1

FileSize(f) == Len(f.lines)

Remove(fs, i) == [fs EXCEPT ![i] = NoFile]

Move(fs, src, dst) == [fs EXCEPT ![dst] = fs[src], ![src] = NoFile]

WriteHeader(fs) ==
  [fs EXCEPT ![0] = [exists |-> TRUE, lines |-> <<HeaderRow>>]]

AppendRow(fs, row) ==
  [fs EXCEPT ![0] = [exists |-> TRUE,
                     lines |-> Append(fs[0].lines, row)]]

\* The file-system faults a Logger call can meet, named by the call that
\* fails: "stat" os.path.getsize, "remove" os.remove, "move" shutil.move of an
\* old backup, "backup" shutil.move of the active file, "create" open(..,'w'),
\* "append" open(..,'a').
LogFaults == {"none", "stat", "remove", "move", "backup", "create", "append"}

\* ------------------------------------------------------------ PostgresLogger
\* __init__ that opens the log file with 'w' whether it exists or not
PostgresLogger_init_truncating(fs) == WriteHeader(fs)

\* __init__: the directory is created when absent (it holds no file then);
\* the header is written only when the log file does not exist
PostgresLogger_init(fs) ==
  IF ~fs[0].exists THEN WriteHeader(fs) ELSE fs

NeedsRotation(fs) == fs[0].exists /\ FileSize(fs[0]) > max_log_size

RECURSIVE RotateBackups(_, _, _)
RotateBackups(fs, i, fault) ==
  IF i = 0 THEN [fs |-> fs, ok |-> TRUE]
  ELSE IF ~fs[i].exists THEN RotateBackups(fs, i - 1, fault)
  ELSE IF i = max_backups - 1
    THEN IF fault = "remove" THEN [fs |-> fs, ok |-> FALSE]
         ELSE RotateBackups(Remove(fs, i), i - 1, fault)
    ELSE IF fault = "move" THEN [fs |-> fs, ok |-> FALSE]
         ELSE RotateBackups(Move(fs, i, i + 1), i - 1, fault)

\* _rotate_logs that shifts every generation up and evicts none
_rotate_logs_keep_all(fs, fault) ==
  IF ~NeedsRotation(fs) THEN [fs |-> fs, ok |-> TRUE]
  ELSE [fs |-> [g \in Generations |->
                  IF g = 0 THEN [exists |-> TRUE, lines |-> <<HeaderRow>>]
                  ELSE fs[g - 1]],
        ok |-> TRUE]

\* after the loop over the old backups: move the active file to .1 and
\* recreate it with the header
RotateActive(shifted, fault) ==
  IF ~shifted.ok THEN shifted
  ELSE IF fault = "backup" THEN [fs |-> shifted.fs, ok |-> FALSE]
  ELSE IF fault = "create"
  THEN [fs |-> Move(shifted.fs, 0, 1), ok |-> FALSE]
  ELSE [fs |-> WriteHeader(Move(shifted.fs, 0, 1)), ok |-> TRUE]

\* _rotate_logs that rotates when the size has reached the threshold
_rotate_logs_at_threshold(fs, fault) ==
  IF ~fs[0].exists THEN [fs |-> fs, ok |-> TRUE]
  ELSE IF fault = "stat" THEN [fs |-> fs, ok |-> FALSE]
  ELSE IF ~(FileSize(fs[0]) >= max_log_size) THEN [fs |-> fs, ok |-> TRUE]
  ELSE RotateActive(RotateBackups(fs, max_backups - 1, fault), fault)

_rotate_logs(fs, fault) ==
  IF ~fs[0].exists THEN [fs |-> fs, ok |-> TRUE]
  ELSE IF fault = "stat" THEN [fs |-> fs, ok |-> FALSE]
  ELSE IF ~(FileSize(fs[0]) > max_log_size) THEN [fs |-> fs, ok |-> TRUE]
  ELSE RotateActive(RotateBackups(fs, max_backups - 1, fault), fault)

\* log that appends the row before it checks the size
log_append_first(fs, row, fault) ==
  _rotate_logs(AppendRow(fs, row), fault)

\* after self._rotate_logs(): open the file for append and write the row
AppendAfter(rotated, row, fault) ==
  IF ~rotated.ok THEN rotated
  ELSE IF fault = "append" THEN [fs |-> rotated.fs, ok |-> FALSE]
  ELSE [fs |-> AppendRow(rotated.fs, row), ok |-> TRUE]

log(fs, row, fault) == AppendAfter(_rotate_logs(fs, fault), row, fault)

\* what the last Logger call was and how it ended
NoLog ==
  [call |-> "none", ok |-> TRUE, fault |-> "none", rotated |-> FALSE,
   row |-> HeaderRow]

\* the call found the file over the threshold and _rotate_logs returned: the
\* call ended well, or it failed only afterwards, at the open for append
RotationCompleted(fs, fault, res) ==
  NeedsRotation(fs) /\ (res.ok \/ fault = "append")

\* history: completed rotations, failed Logger calls, Handler invocations
NoHist == [rotations |-> 0, faults |-> 0, invocations |-> 0]

LogHist(h, fs, fault, res) ==
  [h EXCEPT
     !.rotations = @ + (IF RotationCompleted(fs, fault, res) THEN 1 ELSE 0),
     !.faults = @ + (IF res.ok THEN 0 ELSE 1)]

LogCall(fs, row, fault, res) ==
  [call |-> "record", ok |-> res.ok, fault |-> fault,
   rotated |-> RotationCompleted(fs, fault, res), row |-> row]

\* Two callers of log() on the same path, each a Logger of its own.  A
\* caller is at one system call of log(): pc names the call it makes next, i
\* is the loop index of _rotate_logs (0 for the active file), row the row it
\* writes, entry the files it found when it entered log(), fd the file it
\* holds open for writing and rfd the one it holds open for reading (an
\* index of the file system, NoHandle when none), offset the bytes its copy
\* has sent.  An open file that has lost its name stays at an index of
\* Unnamed, with exists FALSE, until the last handle on it is closed.
\* Here the contents of a file are bytes: a line is one of its rows whole,
\* [of, lo, hi] is the bytes lo .. hi - 1 of the row `of`, and [zeros] is
\* the gap a write beyond the end of the file leaves.
Callers == {1, 2}

NoHandle == -1

Unnamed == (max_backups + 2) .. (max_backups + 5)

NotCalling ==
  [pc |-> "idle", i |-> 0, row |-> HeaderRow,
   entry |-> [g \in Generations \cup Unnamed |-> NoFile],
   fd |-> NoHandle, rfd |-> NoHandle, offset |-> 0]

\* a reading of the clock that is a multiple of Second has no microseconds
Second == 2

\* the bytes csv.writer writes for a line: the header row, or the fields of
\* a row (isoformat() leaves zero microseconds out, the execution time is
\* 0.0000), six commas and the line end
LineSize(line) ==
  LET Chars(s) == CASE s = "" -> 0
                    [] s = "users" -> 5
                    [] s = "INSERT" -> 6
                    [] s = "SUCCESS" -> 7
  IN IF line.hdr THEN 69
     ELSE (IF line.ts % Second = 0 THEN 19 ELSE 26) + Chars(line.operation)
          + Chars(line.table) + Chars(line.status)
          + (IF line.affected_rows < 10 THEN 1 ELSE 2) + Chars(line.error)
          + 6 + 6 + 2

\* the bytes lo .. hi - 1 of a row
Piece(line, lo, hi) ==
  IF lo = 0 /\ hi = LineSize(line) THEN line
  ELSE [of |-> line, lo |-> lo, hi |-> hi]

Size(e) ==
  IF "zeros" \in DOMAIN e THEN e.zeros
  ELSE IF "of" \in DOMAIN e THEN e.hi - e.lo
  ELSE LineSize(e)

RECURSIVE Bytes(_)
Bytes(lines) ==
  IF Len(lines) = 0 THEN 0 ELSE Size(lines[1]) + Bytes(Tail(lines))

\* x followed by y: bytes that continue a row, or a gap, are one element
Cat(x, y) ==
  IF Len(x) = 0 THEN y
  ELSE IF Len(y) = 0 THEN x
  ELSE IF "zeros" \in DOMAIN x[Len(x)] /\ "zeros" \in DOMAIN y[1]
  THEN SubSeq(x, 1, Len(x) - 1)
       \o <<[zeros |-> x[Len(x)].zeros + y[1].zeros]>> \o Tail(y)
  ELSE IF "of" \in DOMAIN x[Len(x)] /\ "of" \in DOMAIN y[1]
          /\ x[Len(x)].of = y[1].of /\ x[Len(x)].hi = y[1].lo
  THEN SubSeq(x, 1, Len(x) - 1)
       \o <<Piece(y[1].of, x[Len(x)].lo, y[1].hi)>> \o Tail(y)
  ELSE x \o y

\* the bytes a .. b - 1 of lines
RECURSIVE Slice(_, _, _)
Slice(lines, a, b) ==
  LET Cut(e, lo, hi) ==
        IF "zeros" \in DOMAIN e THEN [zeros |-> hi - lo]
        ELSE IF "of" \in DOMAIN e THEN Piece(e.of, e.lo + lo, e.lo + hi)
        ELSE Piece(e, lo, hi)
  IN IF Len(lines) = 0 \/ a >= b THEN <<>>
     ELSE IF a >= Size(lines[1])
     THEN Slice(Tail(lines), a - Size(lines[1]), b - Size(lines[1]))
     ELSE Cat(<<Cut(lines[1], a,
                    IF b < Size(lines[1]) THEN b ELSE Size(lines[1]))>>,
              Slice(Tail(lines), 0, b - Size(lines[1])))

\* a write of the bytes `written` at offset pos of a file that holds `lines`
WriteAt(lines, pos, written) ==
  Cat(Cat(Cat(Slice(lines, 0, pos),
              IF Bytes(lines) < pos
              THEN <<[zeros |-> pos - Bytes(lines)]>> ELSE <<>>),
          written),
      Slice(lines, pos + Bytes(written), Bytes(lines)))

\* some caller holds file g open
Held(procs, g) ==
  \E c \in DOMAIN procs : procs[c].fd = g \/ procs[c].rfd = g

\* the index an open file moves to when it loses its name
FreeIndex(procs) ==
  CHOOSE k \in Unnamed :
    ~Held(procs, k) /\ \A j \in Unnamed : j < k => Held(procs, j)

Retarget(procs, from, to) ==
  [c \in DOMAIN procs |->
     [procs[c] EXCEPT !.fd = IF @ = from THEN to ELSE @,
                      !.rfd = IF @ = from THEN to ELSE @]]

\* the name i is taken from its file: a file held open lives on, unnamed
Orphan(fs, procs, i) ==
  IF Held(procs, i)
  THEN [fs EXCEPT ![FreeIndex(procs)] =
                    [exists |-> FALSE, lines |-> fs[i].lines]]
  ELSE fs

\* an open file follows its inode: os.remove(i) and os.unlink(i) leave it
\* unnamed, a rename of src onto dst renames the file at src and leaves the
\* one at dst unnamed
Unlink(procs, i) ==
  IF Held(procs, i) THEN Retarget(procs, i, FreeIndex(procs)) ELSE procs

Rename(procs, src, dst) == Retarget(Unlink(procs, dst), src, dst)

\* an unnamed file is gone when the last handle on it is closed
Close(fs, procs) ==
  [g \in DOMAIN fs |->
     IF g \in Unnamed /\ ~Held(procs, g) THEN NoFile ELSE fs[g]]

\* open(.., 'w'), open(.., 'wb'): the file is created, or truncated in place
Truncate(fs, g) == [fs EXCEPT ![g] = [exists |-> TRUE, lines |-> <<>>]]

\* the header row flushed nowhere
WriteAtStart_skipped(fs, fd, row) == fs

\* the buffered header row, flushed to the file opened with 'w': it is
\* written at offset 0, over the bytes other handles have written there
WriteAtStart(fs, fd, row) ==
  [fs EXCEPT ![fd].lines = WriteAt(@, 0, <<row>>)]

\* the buffered row, flushed to the file opened with 'a': it is written at
\* the end of the file
WriteAtEnd(fs, fd, row) == [fs EXCEPT ![fd].lines = Cat(@, <<row>>)]

\* the race history: the caller that entered log() last, whether a step was
\* taken while the other caller was inside log(), the rows written, the
\* backups removed
NoRace ==
  [proc |-> [c \in Callers |-> NotCalling], latest |-> 1,
   overlapped |-> FALSE, written |-> {}, removed |-> 0]

\* caller c takes a step that leaves it at p
Step(r, c, p) ==
  [r EXCEPT !.proc[c] = p,
            !.overlapped = @ \/ \E o \in Callers \ {c} :
                                  r.proc[o].pc \notin {"idle", "done",
                                                       "raised"}]

\* the next iteration of `for i in range(self.max_backups - 1, 0, -1)`
LoopFrom(p, i) ==
  IF i >= 1 THEN [p EXCEPT !.pc = "backup_exists", !.i = i]
  ELSE [p EXCEPT !.pc = "move_active", !.i = 0]

\* shutil.move(src, src + 1) has returned
Moved(p) ==
  IF p.i = 0 THEN [p EXCEPT !.pc = "open_w"] ELSE LoopFrom(p, p.i - 1)

\* ------------------------------------------------------- statement text
\* A statement is a sequence of tokens: "kw" fixed SQL text, "id" an
\* identifier interpolated from an argument, "ph" a %s placeholder, "lit" a
\* value formatted into the text, "ch" one character of a raw query.
Kw(s) == [k |-> "kw", s |-> s, n |-> 0]
Id(s) == [k |-> "id", s |-> s, n |-> 0]
Lit(n) == [k |-> "lit", s |-> "", n |-> n]
Ph == [k |-> "ph", s |-> "%s", n |-> 0]

\* sep.join(parts), parts a sequence of token sequences
RECURSIVE Join(_, _)
Join(sep, parts) ==
  IF Len(parts) = 0 THEN <<>>
  ELSE IF Len(parts) = 1 THEN parts[1]
  ELSE parts[1] \o <<sep>> \o Join(sep, Tail(parts))

\* a dict is the sequence of its items [k, v] in insertion order
DictKeys(d) == [i \in 1 .. Len(d) |-> d[i].k]
DictValues(d) == [i \in 1 .. Len(d) |-> d[i].v]

IdList(names) == Join(Kw(","), [i \in 1 .. Len(names) |-> <<Id(names[i])>>])
PhList(n) == Join(Kw(","), [i \in 1 .. n |-> <<Ph>>])
EqList(sep, names) ==
  Join(Kw(sep), [i \in 1 .. Len(names) |-> <<Id(names[i]), Kw("="), Ph>>])

NoLimit == [given |-> FALSE, n |-> 0]
Limit(n) == [given |-> TRUE, n |-> n]

create_table_query(table_name, columns) ==
  <<Kw("CREATE TABLE IF NOT EXISTS"), Id(table_name), Kw("(")>>
  \o Join(Kw(","), [i \in 1 .. Len(columns) |->
                      <<Id(columns[i].k), Id(columns[i].v)>>])
  \o <<Kw(")")>>

\* insert_query that formats the values into the text
insert_query_interpolated(table_name, data) ==
  <<Kw("INSERT INTO"), Id(table_name), Kw("(")>>
  \o IdList(DictKeys(data))
  \o <<Kw(") VALUES (")>>
  \o Join(Kw(","), [i \in 1 .. Len(data) |-> <<Lit(data[i].v)>>])
  \o <<Kw(") RETURNING id")>>

insert_query(table_name, data) ==
  <<Kw("INSERT INTO"), Id(table_name), Kw("(")>>
  \o IdList(DictKeys(data))
  \o <<Kw(") VALUES (")>>
  \o PhList(Len(data))
  \o <<Kw(") RETURNING id")>>

select_query(table_name, columns, conditions, order_by, limit) ==
  <<Kw("SELECT")>>
  \o (IF Len(columns) > 0 THEN IdList(columns) ELSE <<Kw("*")>>)
  \o <<Kw("FROM"), Id(table_name)>>
  \o (IF Len(conditions) > 0
      THEN <<Kw("WHERE")>> \o EqList("AND", DictKeys(conditions)) ELSE <<>>)
  \o (IF order_by # "" THEN <<Kw("ORDER BY"), Id(order_by)>> ELSE <<>>)
  \o (IF limit.given /\ limit.n # 0 THEN <<Kw("LIMIT"), Lit(limit.n)>>
      ELSE <<>>)

select_params(conditions) == DictValues(conditions)

update_query(table_name, data, conditions) ==
  <<Kw("UPDATE"), Id(table_name), Kw("SET")>>
  \o EqList(",", DictKeys(data))
  \o <<Kw("WHERE")>>
  \o EqList("AND", DictKeys(conditions))

update_params(data, conditions) == DictValues(data) \o DictValues(conditions)

delete_query(table_name, conditions) ==
  <<Kw("DELETE FROM"), Id(table_name), Kw("WHERE")>>
  \o EqList("AND", DictKeys(conditions))

\* the text of a raw query, one "ch" token per character (its code point)
raw_query(text) ==
  [i \in 1 .. Len(text) |-> [k |-> "ch", s |-> "", n |-> text[i]]]

\* one executed statement: its text and its bound parameter list
Statement(query, params) == [query |-> query, params |-> params]

\* the arguments of one invocation, one record shape for every operation
NoInput ==
  [op |-> "none", table |-> "", data |-> <<>>, records |-> <<>>,
   columns |-> <<>>, conditions |-> <<>>, order_by |-> "", limit |-> NoLimit,
   output_type |-> "list", query |-> <<>>]

NoStatement == <<>>

\* the statements the operation hands to cur.execute, in order
BuiltStatements(in) ==
  CASE in.op = "insert_record" ->
         <<Statement(insert_query(in.table, in.data), DictValues(in.data))>>
    [] in.op = "bulk_insert" ->
         [i \in 1 .. Len(in.records) |->
            Statement(insert_query(in.table, in.records[1]),
                      DictValues(in.records[i]))]
    [] in.op = "select_records" ->
         <<Statement(select_query(in.table, in.columns, in.conditions,
                                  in.order_by, in.limit),
                     select_params(in.conditions))>>
    [] in.op = "update_records" ->
         <<Statement(update_query(in.table, in.data, in.conditions),
                     update_params(in.data, in.conditions))>>
    [] in.op = "delete_records" ->
         <<Statement(delete_query(in.table, in.conditions),
                     DictValues(in.conditions))>>
    [] in.op = "create_table" ->
         <<Statement(create_table_query(in.table, in.data), <<>>)>>
    [] in.op = "execute_raw_query" ->
         <<Statement(raw_query(in.query), <<>>)>>
    [] OTHER -> <<>>

\* ------------------------------------------------------------ the database
\* The engine behind psycopg2: one table "users" with the columns id, name,
\* age.  db is the committed state; a connection works on a copy that commit
\* makes durable and close discards.  Null stands for SQL NULL.
Null == 0

NoTable == [exists |-> FALSE, rows |-> <<>>, nextId |-> 1]

EmptyTable == [exists |-> TRUE, rows |-> <<>>, nextId |-> 1]

DictGet(d, key) ==
  IF \E i \in 1 .. Len(d) : d[i].k = key
  THEN d[CHOOSE i \in 1 .. Len(d) : d[i].k = key].v
  ELSE Null

\* WHERE k1 = v1 AND ..: a comparison with NULL is never true
Matches(row, conditions) ==
  \A i \in 1 .. Len(conditions) :
     /\ conditions[i].v # Null
     /\ row[conditions[i].k] = conditions[i].v

RECURSIVE MatchingRows(_, _)
MatchingRows(rows, conditions) ==
  IF Len(rows) = 0 THEN <<>>
  ELSE (IF Matches(rows[1], conditions) THEN <<rows[1]>> ELSE <<>>)
       \o MatchingRows(Tail(rows), conditions)

RECURSIVE OtherRows(_, _)
OtherRows(rows, conditions) ==
  IF Len(rows) = 0 THEN <<>>
  ELSE (IF Matches(rows[1], conditions) THEN <<>> ELSE <<rows[1]>>)
       \o OtherRows(Tail(rows), conditions)

\* ORDER BY id [DESC]: the identifiers are distinct, so the order is total
RECURSIVE InsertRow(_, _, _)
InsertRow(row, rows, desc) ==
  IF Len(rows) = 0 THEN <<row>>
  ELSE IF (IF desc THEN row.id > rows[1].id ELSE row.id < rows[1].id)
  THEN <<row>> \o rows
  ELSE <<rows[1]>> \o InsertRow(row, Tail(rows), desc)

RECURSIVE SortRows(_, _)
SortRows(rows, desc) ==
  IF Len(rows) = 0 THEN <<>>
  ELSE InsertRow(rows[1], SortRows(Tail(rows), desc), desc)

\* the ORDER BY clauses the engine answers; without one, the table's order
Ordered(rows, order_by) ==
  CASE order_by = "" -> rows
    [] order_by = "id" -> SortRows(rows, FALSE)
    [] order_by = "id DESC" -> SortRows(rows, TRUE)

AllColumns == <<"id", "name", "age">>

Project(row, columns) ==
  LET cs == IF Len(columns) > 0 THEN columns ELSE AllColumns IN
  [i \in 1 .. Len(cs) |-> row[cs[i]]]

Head_n(rows, n) == [i \in 1 .. (IF n < Len(rows) THEN n ELSE Len(rows)) |-> rows[i]]

\* what cur.execute leaves; exc is the exception it raised, "" for none
DbResult(ok, w, rows, rowcount) ==
  [ok |-> ok, db |-> w, rows |-> rows, rowcount |-> rowcount,
   exc |-> IF ok THEN "" ELSE "Error"]

\* psycopg2.Error raised by the server
DbError(w) == DbResult(FALSE, w, <<>>, -1)

\* exception raised by the driver while binding the parameters, before the
\* statement is sent
DriverError(w, exc) == [DbError(w) EXCEPT !.exc = exc]

\* the value bound to column key by the placeholders of an INSERT
Bound(record, key) ==
  IF \E j \in 1 .. Len(record.cols) : record.cols[j] = key
  THEN record.params[CHOOSE j \in 1 .. Len(record.cols) :
                       record.cols[j] = key]
  ELSE Null

\* A text is the sequence of its characters' Unicode code points.
\* The characters str.strip() removes: those for which str.isspace() holds
Whitespace ==
  {9, 10, 11, 12, 13, 28, 29, 30, 31, 32, 133, 160, 5760}
  \cup (8192 .. 8202) \cup {8232, 8233, 8239, 8287, 12288}

\* str.upper() on the characters above "z" that it maps to one character:
\* <<first, last, stride, offset>> maps first, first + stride, .. last to
\* the character offset away
UpperRuns ==
  <<
    <<181, 181, 1, 743>>, <<224, 246, 1, -32>>, <<248, 254, 1, -32>>,
    <<255, 255, 1, 121>>, <<257, 303, 2, -1>>, <<305, 305, 1, -232>>,
    <<307, 311, 2, -1>>, <<314, 328, 2, -1>>, <<331, 375, 2, -1>>,
    <<378, 382, 2, -1>>, <<383, 383, 1, -300>>, <<384, 384, 1, 195>>,
    <<387, 389, 2, -1>>, <<392, 392, 1, -1>>, <<396, 396, 1, -1>>,
    <<402, 402, 1, -1>>, <<405, 405, 1, 97>>, <<409, 409, 1, -1>>,
    <<410, 410, 1, 163>>, <<414, 414, 1, 130>>, <<417, 421, 2, -1>>,
    <<424, 424, 1, -1>>, <<429, 429, 1, -1>>, <<432, 432, 1, -1>>,
    <<436, 438, 2, -1>>, <<441, 441, 1, -1>>, <<445, 445, 1, -1>>,
    <<447, 447, 1, 56>>, <<453, 453, 1, -1>>, <<454, 454, 1, -2>>,
    <<456, 456, 1, -1>>, <<457, 457, 1, -2>>, <<459, 459, 1, -1>>,
    <<460, 460, 1, -2>>, <<462, 476, 2, -1>>, <<477, 477, 1, -79>>,
    <<479, 495, 2, -1>>, <<498, 498, 1, -1>>, <<499, 499, 1, -2>>,
    <<501, 501, 1, -1>>, <<505, 543, 2, -1>>, <<547, 563, 2, -1>>,
    <<572, 572, 1, -1>>, <<575, 576, 1, 10815>>, <<578, 578, 1, -1>>,
    <<583, 591, 2, -1>>, <<592, 592, 1, 10783>>, <<593, 593, 1, 10780>>,
    <<594, 594, 1, 10782>>, <<595, 595, 1, -210>>, <<596, 596, 1, -206>>,
    <<598, 599, 1, -205>>, <<601, 601, 1, -202>>, <<603, 603, 1, -203>>,
    <<604, 604, 1, 42319>>, <<608, 608, 1, -205>>, <<609, 609, 1, 42315>>,
    <<611, 611, 1, -207>>, <<613, 613, 1, 42280>>, <<614, 614, 1, 42308>>,
    <<616, 616, 1, -209>>, <<617, 617, 1, -211>>, <<618, 618, 1, 42308>>,
    <<619, 619, 1, 10743>>, <<620, 620, 1, 42305>>, <<623, 623, 1, -211>>,
    <<625, 625, 1, 10749>>, <<626, 626, 1, -213>>, <<629, 629, 1, -214>>,
    <<637, 637, 1, 10727>>, <<640, 640, 1, -218>>, <<642, 642, 1, 42307>>,
    <<643, 643, 1, -218>>, <<647, 647, 1, 42282>>, <<648, 648, 1, -218>>,
    <<649, 649, 1, -69>>, <<650, 651, 1, -217>>, <<652, 652, 1, -71>>,
    <<658, 658, 1, -219>>, <<669, 669, 1, 42261>>, <<670, 670, 1, 42258>>,
    <<837, 837, 1, 84>>, <<881, 883, 2, -1>>, <<887, 887, 1, -1>>,
    <<891, 893, 1, 130>>, <<940, 940, 1, -38>>, <<941, 943, 1, -37>>,
    <<945, 961, 1, -32>>, <<962, 962, 1, -31>>, <<963, 971, 1, -32>>,
    <<972, 972, 1, -64>>, <<973, 974, 1, -63>>, <<976, 976, 1, -62>>,
    <<977, 977, 1, -57>>, <<981, 981, 1, -47>>, <<982, 982, 1, -54>>,
    <<983, 983, 1, -8>>, <<985, 1007, 2, -1>>, <<1008, 1008, 1, -86>>,
    <<1009, 1009, 1, -80>>, <<1010, 1010, 1, 7>>, <<1011, 1011, 1, -116>>,
    <<1013, 1013, 1, -96>>, <<1016, 1016, 1, -1>>, <<1019, 1019, 1, -1>>,
    <<1072, 1103, 1, -32>>, <<1104, 1119, 1, -80>>, <<1121, 1153, 2, -1>>,
    <<1163, 1215, 2, -1>>, <<1218, 1230, 2, -1>>, <<1231, 1231, 1, -15>>,
    <<1233, 1327, 2, -1>>, <<1377, 1414, 1, -48>>, <<4304, 4346, 1, 3008>>,
    <<4349, 4351, 1, 3008>>, <<5112, 5117, 1, -8>>,
    <<7296, 7296, 1, -6254>>, <<7297, 7297, 1, -6253>>,
    <<7298, 7298, 1, -6244>>, <<7299, 7300, 1, -6242>>,
    <<7301, 7301, 1, -6243>>, <<7302, 7302, 1, -6236>>,
    <<7303, 7303, 1, -6181>>, <<7304, 7304, 1, 35266>>,
    <<7545, 7545, 1, 35332>>, <<7549, 7549, 1, 3814>>,
    <<7566, 7566, 1, 35384>>, <<7681, 7829, 2, -1>>, <<7835, 7835, 1, -59>>,
    <<7841, 7935, 2, -1>>, <<7936, 7943, 1, 8>>, <<7952, 7957, 1, 8>>,
    <<7968, 7975, 1, 8>>, <<7984, 7991, 1, 8>>, <<8000, 8005, 1, 8>>,
    <<8017, 8023, 2, 8>>, <<8032, 8039, 1, 8>>, <<8048, 8049, 1, 74>>,
    <<8050, 8053, 1, 86>>, <<8054, 8055, 1, 100>>, <<8056, 8057, 1, 128>>,
    <<8058, 8059, 1, 112>>, <<8060, 8061, 1, 126>>, <<8112, 8113, 1, 8>>,
    <<8126, 8126, 1, -7205>>, <<8144, 8145, 1, 8>>, <<8160, 8161, 1, 8>>,
    <<8165, 8165, 1, 7>>, <<8526, 8526, 1, -28>>, <<8560, 8575, 1, -16>>,
    <<8580, 8580, 1, -1>>, <<9424, 9449, 1, -26>>, <<11312, 11359, 1, -48>>,
    <<11361, 11361, 1, -1>>, <<11365, 11365, 1, -10795>>,
    <<11366, 11366, 1, -10792>>, <<11368, 11372, 2, -1>>,
    <<11379, 11379, 1, -1>>, <<11382, 11382, 1, -1>>,
    <<11393, 11491, 2, -1>>, <<11500, 11502, 2, -1>>,
    <<11507, 11507, 1, -1>>, <<11520, 11557, 1, -7264>>,
    <<11559, 11559, 1, -7264>>, <<11565, 11565, 1, -7264>>,
    <<42561, 42605, 2, -1>>, <<42625, 42651, 2, -1>>,
    <<42787, 42799, 2, -1>>, <<42803, 42863, 2, -1>>,
    <<42874, 42876, 2, -1>>, <<42879, 42887, 2, -1>>,
    <<42892, 42892, 1, -1>>, <<42897, 42899, 2, -1>>,
    <<42900, 42900, 1, 48>>, <<42903, 42921, 2, -1>>,
    <<42933, 42947, 2, -1>>, <<42952, 42954, 2, -1>>,
    <<42961, 42961, 1, -1>>, <<42967, 42969, 2, -1>>,
    <<42998, 42998, 1, -1>>, <<43859, 43859, 1, -928>>,
    <<43888, 43967, 1, -38864>>, <<65345, 65370, 1, -32>>,
    <<66600, 66639, 1, -40>>, <<66776, 66811, 1, -40>>,
    <<66967, 66977, 1, -39>>, <<66979, 66993, 1, -39>>,
    <<66995, 67001, 1, -39>>, <<67003, 67004, 1, -39>>,
    <<68800, 68850, 1, -64>>, <<71872, 71903, 1, -32>>,
    <<93792, 93823, 1, -32>>, <<125218, 125251, 1, -34>>
  >>

\* str.upper() on the characters it maps to more than one character
UpperExpansions ==
  {
    <<223, <<83, 83>>>>, <<329, <<700, 78>>>>, <<496, <<74, 780>>>>,
    <<912, <<921, 776, 769>>>>, <<944, <<933, 776, 769>>>>,
    <<1415, <<1333, 1362>>>>, <<7830, <<72, 817>>>>, <<7831, <<84, 776>>>>,
    <<7832, <<87, 778>>>>, <<7833, <<89, 778>>>>, <<7834, <<65, 702>>>>,
    <<8016, <<933, 787>>>>, <<8018, <<933, 787, 768>>>>,
    <<8020, <<933, 787, 769>>>>, <<8022, <<933, 787, 834>>>>,
    <<8064, <<7944, 921>>>>, <<8065, <<7945, 921>>>>,
    <<8066, <<7946, 921>>>>, <<8067, <<7947, 921>>>>,
    <<8068, <<7948, 921>>>>, <<8069, <<7949, 921>>>>,
    <<8070, <<7950, 921>>>>, <<8071, <<7951, 921>>>>,
    <<8072, <<7944, 921>>>>, <<8073, <<7945, 921>>>>,
    <<8074, <<7946, 921>>>>, <<8075, <<7947, 921>>>>,
    <<8076, <<7948, 921>>>>, <<8077, <<7949, 921>>>>,
    <<8078, <<7950, 921>>>>, <<8079, <<7951, 921>>>>,
    <<8080, <<7976, 921>>>>, <<8081, <<7977, 921>>>>,
    <<8082, <<7978, 921>>>>, <<8083, <<7979, 921>>>>,
    <<8084, <<7980, 921>>>>, <<8085, <<7981, 921>>>>,
    <<8086, <<7982, 921>>>>, <<8087, <<7983, 921>>>>,
    <<8088, <<7976, 921>>>>, <<8089, <<7977, 921>>>>,
    <<8090, <<7978, 921>>>>, <<8091, <<7979, 921>>>>,
    <<8092, <<7980, 921>>>>, <<8093, <<7981, 921>>>>,
    <<8094, <<7982, 921>>>>, <<8095, <<7983, 921>>>>,
    <<8096, <<8040, 921>>>>, <<8097, <<8041, 921>>>>,
    <<8098, <<8042, 921>>>>, <<8099, <<8043, 921>>>>,
    <<8100, <<8044, 921>>>>, <<8101, <<8045, 921>>>>,
    <<8102, <<8046, 921>>>>, <<8103, <<8047, 921>>>>,
    <<8104, <<8040, 921>>>>, <<8105, <<8041, 921>>>>,
    <<8106, <<8042, 921>>>>, <<8107, <<8043, 921>>>>,
    <<8108, <<8044, 921>>>>, <<8109, <<8045, 921>>>>,
    <<8110, <<8046, 921>>>>, <<8111, <<8047, 921>>>>,
    <<8114, <<8122, 921>>>>, <<8115, <<913, 921>>>>, <<8116, <<902, 921>>>>,
    <<8118, <<913, 834>>>>, <<8119, <<913, 834, 921>>>>,
    <<8124, <<913, 921>>>>, <<8130, <<8138, 921>>>>, <<8131, <<919, 921>>>>,
    <<8132, <<905, 921>>>>, <<8134, <<919, 834>>>>,
    <<8135, <<919, 834, 921>>>>, <<8140, <<919, 921>>>>,
    <<8146, <<921, 776, 768>>>>, <<8147, <<921, 776, 769>>>>,
    <<8150, <<921, 834>>>>, <<8151, <<921, 776, 834>>>>,
    <<8162, <<933, 776, 768>>>>, <<8163, <<933, 776, 769>>>>,
    <<8164, <<929, 787>>>>, <<8166, <<933, 834>>>>,
    <<8167, <<933, 776, 834>>>>, <<8178, <<8186, 921>>>>,
    <<8179, <<937, 921>>>>, <<8180, <<911, 921>>>>, <<8182, <<937, 834>>>>,
    <<8183, <<937, 834, 921>>>>, <<8188, <<937, 921>>>>,
    <<64256, <<70, 70>>>>, <<64257, <<70, 73>>>>, <<64258, <<70, 76>>>>,
    <<64259, <<70, 70, 73>>>>, <<64260, <<70, 70, 76>>>>,
    <<64261, <<83, 84>>>>, <<64262, <<83, 84>>>>, <<64275, <<1348, 1350>>>>,
    <<64276, <<1348, 1333>>>>, <<64277, <<1348, 1339>>>>,
    <<64278, <<1358, 1350>>>>, <<64279, <<1348, 1341>>>>
  }

\* chr(c).upper(), a text of one to three characters
UpperChar(c) ==
  IF c \in 97 .. 122 THEN <<c - 32>>
  ELSE IF c < 181 THEN <<c>>
  ELSE IF \E e \in UpperExpansions : e[1] = c
  THEN (CHOOSE e \in UpperExpansions : e[1] = c)[2]
  ELSE IF \E r \in 1 .. Len(UpperRuns) :
            /\ c \in UpperRuns[r][1] .. UpperRuns[r][2]
            /\ (c - UpperRuns[r][1]) % UpperRuns[r][3] = 0
  THEN <<c + UpperRuns[CHOOSE r \in 1 .. Len(UpperRuns) :
                         /\ c \in UpperRuns[r][1] .. UpperRuns[r][2]
                         /\ (c - UpperRuns[r][1]) % UpperRuns[r][3] = 0][4]>>
  ELSE <<c>>

RECURSIVE Upper(_)
Upper(text) ==
  IF Len(text) = 0 THEN <<>> ELSE UpperChar(text[1]) \o Upper(Tail(text))

RECURSIVE LStrip(_)
LStrip(text) ==
  IF Len(text) > 0 /\ text[1] \in Whitespace THEN LStrip(Tail(text)) ELSE text

RECURSIVE RStrip(_)
RStrip(text) ==
  IF Len(text) > 0 /\ text[Len(text)] \in Whitespace
  THEN RStrip(SubSeq(text, 1, Len(text) - 1)) ELSE text

Strip(text) == RStrip(LStrip(text))

StartsWith(text, prefix) ==
  Len(text) >= Len(prefix) /\ SubSeq(text, 1, Len(prefix)) = prefix

\* 'SELECT'
SELECT == <<83, 69, 76, 69, 67, 84>>

\* the test without strip(): leading whitespace hides the SELECT
StartsWithSelect_unstripped(query) == StartsWith(Upper(query), SELECT)

StartsWithSelect(query) == StartsWith(Upper(Strip(query)), SELECT)

\* the raw queries the model runs
\* 'SELECT 1'
RawSelectOne == <<83, 69, 76, 69, 67, 84, 32, 49>>

\* '\nselect 1\n'
RawPaddedSelect == <<10, 115, 101, 108, 101, 99, 116, 32, 49, 10>>

\* 'DELETE FROM users'
RawDeleteAll ==
  <<68, 69, 76, 69, 84, 69, 32, 70, 82, 79, 77, 32, 117, 115, 101, 114, 115>>

RawQueries == {RawSelectOne, RawPaddedSelect, RawDeleteAll}

\* The statements of a raw query the engine below answers, read the way SQL
\* reads them: surrounding white space dropped, letters without regard to
\* case.  SqlText is the text in that form.
SqlSpace == {9, 10, 12, 13, 32}

RECURSIVE SqlTrim(_)
SqlTrim(text) ==
  IF Len(text) > 0 /\ text[1] \in SqlSpace THEN SqlTrim(Tail(text))
  ELSE IF Len(text) > 0 /\ text[Len(text)] \in SqlSpace
  THEN SqlTrim(SubSeq(text, 1, Len(text) - 1))
  ELSE text

SqlText(query) ==
  [i \in 1 .. Len(SqlTrim(query)) |->
     IF SqlTrim(query)[i] \in 97 .. 122 THEN SqlTrim(query)[i] - 32
     ELSE SqlTrim(query)[i]]

\* 'SELECT ' followed by one digit d
SqlSelectLiteral(t) ==
  Len(t) = 8 /\ SubSeq(t, 1, 7) = <<83, 69, 76, 69, 67, 84,
    32>> /\ t[8] \in 48 .. 57

\* 'SELECT ID FROM USERS'
SqlSelectIds ==
  <<83, 69, 76, 69, 67, 84, 32, 73, 68, 32, 70, 82, 79, 77, 32, 85, 83, 69,
    82, 83>>

\* 'DELETE FROM USERS'
SqlDeleteAll ==
  <<68, 69, 76, 69, 84, 69, 32, 70, 82, 79, 77, 32, 85, 83, 69, 82, 83>>

\* 'DELETE FROM USERS WHERE ID = ' followed by one digit d
SqlDeleteById(t) ==
  /\ Len(t) = 30
  /\ SubSeq(t, 1, 29) =
       <<68, 69, 76, 69, 84, 69, 32, 70, 82, 79, 77, 32, 85, 83, 69, 82, 83,
         32, 87, 72, 69, 82, 69, 32, 73, 68, 32, 61, 32>>
  /\ t[30] \in 48 .. 57

\* cur.execute of a raw query whose text, as SQL reads it, is t; the engine
\* answers the statements named above and no other text
ExecuteRaw(w, t) ==
  CASE SqlSelectLiteral(t) -> DbResult(TRUE, w, <<<<t[8] - 48>>>>, 1)
    [] t = SqlSelectIds ->
         IF ~w.exists THEN DbError(w)
         ELSE DbResult(TRUE, w, [i \in 1 .. Len(w.rows) |-> <<w.rows[i].id>>],
                       Len(w.rows))
    [] t = SqlDeleteAll ->
         IF ~w.exists THEN DbError(w)
         ELSE DbResult(TRUE, [w EXCEPT !.rows = <<>>], <<>>, Len(w.rows))
    [] SqlDeleteById(t) ->
         IF ~w.exists THEN DbError(w)
         ELSE DbResult(TRUE,
                       [w EXCEPT !.rows =
                          OtherRows(@, <<[k |-> "id", v |-> t[30] - 48]>>)],
                       <<>>,
                       Len(MatchingRows(w.rows,
                                        <<[k |-> "id", v |-> t[30] - 48]>>)))

\* cur.execute of the statement of operation in.op (record `record` of a
\* bulk_insert) on the working copy w
Execute(w, in, record) ==
  CASE in.op = "create_table" ->
         DbResult(TRUE, [w EXCEPT !.exists = TRUE], <<>>, -1)
    [] in.op \in {"insert_record", "bulk_insert"} ->
         IF Len(record.cols) = 0 THEN DbError(w)
         ELSE IF Len(record.params) < Len(record.cols)
         THEN DriverError(w, "IndexError")
         ELSE IF Len(record.params) > Len(record.cols)
         THEN DriverError(w, "TypeError")
         ELSE IF ~w.exists THEN DbError(w)
         ELSE LET row == [id |-> w.nextId, name |-> Bound(record, "name"),
                          age |-> Bound(record, "age")] IN
              DbResult(TRUE,
                       [w EXCEPT !.rows = Append(@, row), !.nextId = @ + 1],
                       <<<<row.id>>>>, 1)
    [] in.op = "select_records" ->
         IF ~w.exists THEN DbError(w)
         ELSE LET found == Ordered(MatchingRows(w.rows, in.conditions),
                                   in.order_by)
                  limited == IF in.limit.given /\ in.limit.n # 0
                             THEN Head_n(found, in.limit.n) ELSE found IN
              DbResult(TRUE, w,
                       [i \in 1 .. Len(limited) |->
                          Project(limited[i], in.columns)],
                       Len(limited))
    [] in.op = "update_records" ->
         IF ~w.exists \/ Len(in.data) = 0 \/ Len(in.conditions) = 0
         THEN DbError(w)
         ELSE LET found == MatchingRows(w.rows, in.conditions) IN
              DbResult(TRUE,
                       [w EXCEPT !.rows =
                          [i \in 1 .. Len(@) |->
                             IF Matches(@[i], in.conditions)
                             THEN [c \in DOMAIN @[i] |->
                                     IF \E j \in 1 .. Len(in.data) :
                                          in.data[j].k = c
                                     THEN DictGet(in.data, c) ELSE @[i][c]]
                             ELSE @[i]]],
                       <<>>, Len(found))
    [] in.op = "delete_records" ->
         IF ~w.exists \/ Len(in.conditions) = 0 THEN DbError(w)
         ELSE DbResult(TRUE,
                       [w EXCEPT !.rows = OtherRows(@, in.conditions)],
                       <<>>, Len(MatchingRows(w.rows, in.conditions)))
    [] in.op = "execute_raw_query" -> ExecuteRaw(w, SqlText(in.query))

\* a connection in autocommit mode: every executed statement is durable
Rollback_keeps_work(committed, w) == w

\* what close() without commit leaves: the committed rows; the id sequence
\* is not transactional and keeps its advance
Rollback(committed, w) == [committed EXCEPT !.nextId = w.nextId]

\* ----------------------------------------------------------- PostgresHandler
\* What one invocation met: connect succeeds or not; the dbFault
\* ("execute", "fetch" or "commit") hits statement failAt; logFault is the
\* file-system fault of the Logger call.
Env(connect, dbFault, failAt, logFault) ==
  [connect |-> connect, dbFault |-> dbFault, failAt |-> failAt,
   logFault |-> logFault]

NoFaults == Env(TRUE, "none", 0, "none")

\* return values, one record shape for every Python type returned
RetNone == [kind |-> "none", b |-> FALSE, n |-> 0, rows |-> <<>>]
RetBool(b) == [kind |-> "bool", b |-> b, n |-> 0, rows |-> <<>>]
RetInt(n) == [kind |-> "int", b |-> FALSE, n |-> n, rows |-> <<>>]
RetList(rows) == [kind |-> "list", b |-> FALSE, n |-> 0, rows |-> rows]
RetFrame(rows) == [kind |-> "frame", b |-> FALSE, n |-> 0, rows |-> rows]

\* how a block ended: raised is "" (returned ret), "Error" (psycopg2.Error),
\* "Exception" (the wrapper raised by get_connection), "IndexError" or
\* "TypeError" (raised by the driver binding parameters) or "OSError"; cause is
\* the step that failed; trace the calls made, in order; logged the Logger
\* call made, if any
Outcome(raised, cause, ret, trace, fs, d, logged) ==
  [raised |-> raised, cause |-> cause, ret |-> ret, trace |-> trace,
   fs |-> fs, db |-> d, logged |-> logged]

Fetches(in) ==
  \/ in.op \in {"insert_record", "bulk_insert", "select_records"}
  \/ in.op = "execute_raw_query" /\ StartsWithSelect(in.query)

\* insert_record without its conn.commit()
Commits_without_insert(in) ==
  \/ in.op \in {"create_table", "bulk_insert", "update_records",
                "delete_records"}
  \/ in.op = "execute_raw_query" /\ ~StartsWithSelect(in.query)

Commits(in) ==
  \/ in.op \in {"create_table", "insert_record", "bulk_insert",
                "update_records", "delete_records"}
  \/ in.op = "execute_raw_query" /\ ~StartsWithSelect(in.query)

\* the loop over the records of a bulk_insert, last record first
Records_reversed(in) ==
  CASE in.op = "bulk_insert" ->
         [i \in 1 .. Len(in.records) |->
            [cols |-> DictKeys(in.records[1]),
             params |-> DictValues(in.records[Len(in.records) + 1 - i])]]
    [] in.op = "insert_record" ->
         <<[cols |-> DictKeys(in.data), params |-> DictValues(in.data)]>>
    [] OTHER -> <<[cols |-> <<>>, params |-> <<>>]>>

\* the statements the operation executes, in order: the columns named in
\* the text (those of the first record of a bulk_insert) and the parameters
\* handed over with it (the values of the record itself)
Records(in) ==
  CASE in.op = "bulk_insert" ->
         [i \in 1 .. Len(in.records) |->
            [cols |-> DictKeys(in.records[1]),
             params |-> DictValues(in.records[i])]]
    [] in.op = "insert_record" ->
         <<[cols |-> DictKeys(in.data), params |-> DictValues(in.data)]>>
    [] OTHER -> <<[cols |-> <<>>, params |-> <<>>]>>

\* cur.execute (and the fetch after it) for statements i, i + 1, ..
RECURSIVE ExecuteAll(_, _, _, _)

\* statement i has run with result r: fetch, then the statements after it
ExecuteNext(in, i, env, w, r) ==
  IF ~r.ok \/ (env.dbFault = "execute" /\ env.failAt = i)
  THEN [ok |-> FALSE, exc |-> IF ~r.ok THEN r.exc ELSE "Error",
        cause |-> "execute", db |-> w, results |-> <<>>,
        trace |-> <<"execute_failed">>]
  ELSE IF Fetches(in) /\ env.dbFault = "fetch" /\ env.failAt = i
  THEN [ok |-> FALSE, exc |-> "Error", cause |-> "fetch", db |-> r.db,
        results |-> <<>>, trace |-> <<"execute", "fetch_failed">>]
  ELSE [ExecuteAll(r.db, in, i + 1, env) EXCEPT
          !.results = <<r>> \o @,
          !.trace = (IF Fetches(in) THEN <<"execute", "fetch">>
                     ELSE <<"execute">>) \o @]

ExecuteAll(w, in, i, env) ==
  IF i > Len(Records(in))
  THEN [ok |-> TRUE, exc |-> "", cause |-> "", db |-> w, results |-> <<>>,
        trace |-> <<>>]
  ELSE ExecuteNext(in, i, env, w, Execute(w, in, Records(in)[i]))

LogOperation(in) ==
  CASE in.op = "create_table" -> "CREATE_TABLE"
    [] in.op = "insert_record" -> "INSERT"
    [] in.op = "bulk_insert" -> "BULK_INSERT"
    [] in.op = "select_records" -> "SELECT"
    [] in.op = "update_records" -> "UPDATE"
    [] in.op = "delete_records" -> "DELETE"
    [] OTHER -> "RAW_QUERY"

LogTable(in) == IF in.op = "execute_raw_query" THEN "N/A" ELSE in.table

\* the affected_rows argument of the SUCCESS record
AffectedRows(in, results) ==
  CASE in.op = "create_table" -> 0
    [] in.op = "insert_record" -> 1
    [] in.op = "bulk_insert" -> Len(in.records)
    [] in.op \in {"select_records", "execute_raw_query"}
         /\ Fetches(in) -> Len(results[1].rows)
    [] OTHER -> results[1].rowcount

\* the value returned after the SUCCESS record
SuccessValue(in, results) ==
  CASE in.op = "create_table" -> RetBool(TRUE)
    [] in.op = "insert_record" -> RetInt(results[1].rows[1][1])
    [] in.op = "bulk_insert" ->
         RetList([i \in 1 .. Len(results) |-> results[i].rows[1][1]])
    [] in.op = "select_records" ->
         IF in.output_type # "pd.df" THEN RetList(results[1].rows)
         ELSE RetFrame(results[1].rows)
    [] in.op \in {"update_records", "delete_records"} ->
         RetInt(results[1].rowcount)
    [] OTHER ->
         IF Fetches(in) THEN RetList(results[1].rows) ELSE RetNone

\* the value returned by the except Error branch
FailureValue(in) ==
  CASE in.op = "create_table" -> RetBool(FALSE)
    [] in.op = "insert_record" -> RetNone
    [] in.op \in {"bulk_insert", "select_records"} -> RetList(<<>>)
    [] in.op \in {"update_records", "delete_records"} -> RetInt(0)
    [] OTHER -> RetNone

\* self.logger.log(..., 'SUCCESS', ...) has ended with res; return
Returned(in, ex, steps, done, fs, row, fault, res) ==
  IF ~res.ok
  THEN Outcome("OSError", "log", RetNone, steps \o <<"log_failed">>,
               res.fs, done, LogCall(fs, row, fault, res))
  ELSE Outcome("", "", SuccessValue(in, ex.results), steps \o <<"log">>,
               res.fs, done, LogCall(fs, row, fault, res))

SuccessRow(in, ts, results) ==
  LogRow(ts, LogOperation(in), LogTable(in), "SUCCESS",
         AffectedRows(in, results), "")

\* commit whose error is swallowed: SUCCESS is logged all the same
Committed_ignoring_commit_error(in, env, fs, d, ts, ex) ==
  IF ~ex.ok
  THEN Outcome(ex.exc, ex.cause, RetNone, ex.trace, fs, Rollback(d, ex.db),
               NoLog)
  ELSE Returned(in, ex,
                ex.trace \o (IF ~Commits(in) THEN <<>>
                             ELSE IF env.dbFault = "commit"
                             THEN <<"commit_failed">> ELSE <<"commit">>),
                IF Commits(in) /\ env.dbFault # "commit" THEN ex.db
                ELSE Rollback(d, ex.db),
                fs, SuccessRow(in, ts, ex.results), env.logFault,
                log(fs, SuccessRow(in, ts, ex.results), env.logFault))

\* the statements have run with result ex: commit, log SUCCESS, return
Committed(in, env, fs, d, ts, ex) ==
  IF ~ex.ok
  THEN Outcome(ex.exc, ex.cause, RetNone, ex.trace, fs, Rollback(d, ex.db),
               NoLog)
  ELSE IF Commits(in) /\ env.dbFault = "commit"
  THEN Outcome("Error", "commit", RetNone, ex.trace \o <<"commit_failed">>,
               fs, Rollback(d, ex.db), NoLog)
  ELSE Returned(in, ex,
                ex.trace \o (IF Commits(in) THEN <<"commit">> ELSE <<>>),
                IF Commits(in) THEN ex.db ELSE Rollback(d, ex.db),
                fs, SuccessRow(in, ts, ex.results), env.logFault,
                log(fs, SuccessRow(in, ts, ex.results), env.logFault))

\* the block under `with conn.cursor() as cur`
Body(in, env, fs, d, ts) ==
  Committed(in, env, fs, d, ts, ExecuteAll(d, in, 1, env))

\* leaving the scope without a finally clause: close() only on a normal exit
ScopeExit_no_finally(body) ==
  [body EXCEPT
     !.raised = IF @ = "Error" THEN "Exception" ELSE @,
     !.trace = IF body.raised = "" THEN <<"connect">> \o @ \o <<"close">>
               ELSE <<"connect">> \o @]

\* leaving the scope: a psycopg2.Error thrown at the yield is caught by
\* except Error and raised again as Exception; finally closes the connection
ScopeExit(body) ==
  [body EXCEPT
     !.raised = IF @ = "Error" THEN "Exception" ELSE @,
     !.trace = <<"connect">> \o @ \o <<"close">>]

\* with self.get_connection() as conn: <body>
get_connection(in, env, fs, d, ts) ==
  IF ~env.connect
  THEN Outcome("Exception", "connect", RetNone, <<"connect_failed">>, fs, d,
               NoLog)
  ELSE ScopeExit(Body(in, env, fs, d, ts))

\* self.logger.log(..., 'ERROR', ...) has ended with res; return
Failed(in, scope, row, fault, res) ==
  IF ~res.ok
  THEN [scope EXCEPT !.raised = "OSError", !.cause = "log",
                     !.trace = @ \o <<"log_failed">>, !.fs = res.fs,
                     !.logged = LogCall(scope.fs, row, fault, res)]
  ELSE [scope EXCEPT !.raised = "", !.ret = FailureValue(in),
                     !.trace = @ \o <<"log">>, !.fs = res.fs,
                     !.logged = LogCall(scope.fs, row, fault, res)]

ErrorRow(in, ts, cause) ==
  LogRow(ts, LogOperation(in), LogTable(in), "ERROR", 0, cause)

\* except Error as e: log ERROR, return the failure value
Handled(in, env, ts, scope) ==
  IF scope.raised # "Error" THEN scope
  ELSE Failed(in, scope, ErrorRow(in, ts, scope.cause), env.logFault,
              log(scope.fs, ErrorRow(in, ts, scope.cause), env.logFault))

\* try: <with block> except Error as e: ...
Operation(in, env, fs, d, ts) ==
  Handled(in, env, ts, get_connection(in, env, fs, d, ts))

\* bulk_insert without the test for empty data
Invoke_unguarded(in, env, fs, d, ts) == Operation(in, env, fs, d, ts)

\* bulk_insert returns [] at once when data is empty
Invoke(in, env, fs, d, ts) ==
  IF in.op = "bulk_insert" /\ Len(in.records) = 0
  THEN Outcome("", "", RetList(<<>>), <<>>, fs, d, NoLog)
  ELSE Operation(in, env, fs, d, ts)

CountOf(trace, event) ==
  Cardinality({i \in 1 .. Len(trace) : trace[i] = event})

\* the statements handed to cur.execute, the failing one included
Executed(in, trace) ==
  SubSeq(BuiltStatements(in), 1,
         CountOf(trace, "execute") + CountOf(trace, "execute_failed"))

\* no invocation yet
Idle == [raised |-> "", cause |-> "", ret |-> RetNone, trace |-> <<>>]

\* -------------------------------------------- statement building on its own
Item(k, v) == [k |-> k, v |-> v]

\* the arguments tried: every dict over the columns name, age and every
\* predicate over the columns id, name with the values 1 and 2
QueryInputs ==
  LET Values == {1, 2}
      Dicts ==
        {<<>>}
        \cup { <<Item(c, v)>> : c \in {"name", "age"}, v \in Values }
        \cup { <<Item("name", v), Item("age", w)>> :
                 v \in Values, w \in Values }
        \cup { <<Item("age", v), Item("name", w)>> :
                 v \in Values, w \in Values }
      Predicates ==
        {<<>>}
        \cup { <<Item(c, v)>> : c \in {"id", "name"}, v \in Values }
        \cup { <<Item("id", v), Item("name", w)>> : v \in Values, w \in Values }
      BulkRecords ==
        { <<Item("name", 1)>>, <<Item("name", 2), Item("age", 1)>> }
      Limits == {NoLimit} \cup { Limit(n) : n \in 0 .. 2 }
  IN
  { [NoInput EXCEPT !.op = "insert_record", !.table = "users", !.data = d] :
      d \in Dicts }
  \cup { [NoInput EXCEPT !.op = "bulk_insert", !.table = "users",
                         !.records = <<r>>] : r \in BulkRecords }
  \cup { [NoInput EXCEPT !.op = "bulk_insert", !.table = "users",
                         !.records = <<r1, r2>>] :
           r1 \in BulkRecords, r2 \in BulkRecords }
  \cup { [NoInput EXCEPT !.op = "select_records", !.table = "users",
                         !.columns = cs, !.conditions = c, !.order_by = o,
                         !.limit = l] :
           cs \in {<<>>, <<"name">>, <<"id", "name">>}, c \in Predicates,
           o \in {"", "age DESC"}, l \in Limits }
  \cup { [NoInput EXCEPT !.op = "update_records", !.table = "users",
                         !.data = d, !.conditions = c] :
           d \in Dicts, c \in Predicates }
  \cup { [NoInput EXCEPT !.op = "delete_records", !.table = "users",
                         !.conditions = c] : c \in Predicates }

InitQuery ==
  /\ files = [g \in Generations |-> NoFile]
  /\ clock = 0
  /\ lastLog = NoLog
  /\ hist = NoHist
  /\ qin \in QueryInputs
  /\ qout = NoStatement
  /\ db = NoTable
  /\ conns = 0
  /\ last = Idle
  /\ race = NoRace

BuildStatement ==
  /\ qin.op # "none"
  /\ qout = NoStatement
  /\ qout' = BuiltStatements(qin)
  /\ UNCHANGED <<files, clock, lastLog, hist, qin, db, conns, last, race>>

NextQuery == BuildStatement

SpecQuery == InitQuery /\ [][NextQuery]_vars

\* ------------------------------------------------- the Logger on its own
InitialFS ==
  { [g \in Generations |-> NoFile],
    [g \in Generations |-> IF g = 0 THEN [exists |-> TRUE, lines |-> <<>>]
                           ELSE NoFile],
    [g \in Generations |-> IF g = 0
                           THEN [exists |-> TRUE, lines |-> <<HeaderRow>>]
                           ELSE NoFile] }

InitLogger ==
  /\ \E fs0 \in InitialFS : files = PostgresLogger_init(fs0)
  /\ clock = 0
  /\ lastLog = NoLog
  /\ hist = NoHist
  /\ qin = NoInput
  /\ qout = NoStatement
  /\ db = NoTable
  /\ conns = 0
  /\ last = Idle
  /\ race = NoRace

LoggerInitialize ==
  /\ clock < MaxCalls
  /\ files' = PostgresLogger_init(files)
  /\ clock' = clock + 1
  /\ lastLog' = [NoLog EXCEPT !.call = "init"]
  /\ UNCHANGED <<hist, qin, qout, db, conns, last, race>>

LoggerRecord ==
  /\ clock < MaxCalls
  /\ \E operation \in {"INSERT", "SELECT"}, fault \in LogFaults :
       LET row == LogRow(clock + 1, operation, "users", "SUCCESS", 1, "")
           res == log(files, row, fault) IN
       /\ files' = res.fs
       /\ clock' = clock + 1
       /\ lastLog' = LogCall(files, row, fault, res)
       /\ hist' = LogHist(hist, files, fault, res)
       /\ UNCHANGED <<qin, qout, db, conns, last, race>>

NextLogger == LoggerInitialize \/ LoggerRecord

SpecLogger == InitLogger /\ [][NextLogger]_vars

\* ------------------------------------------- two Loggers on the same path
\* the files after k calls of log() by a single caller
RECURSIVE SerialLog(_, _)
SerialLog(fs, k) ==
  IF k = 0 THEN fs
  ELSE log(SerialLog(fs, k - 1),
           LogRow(k, "INSERT", "users", "SUCCESS", 1, ""), "none").fs

\* after enough earlier calls to fill the active file and both retained
\* backups
InitRace ==
  /\ \E k \in 0 .. 3 * max_log_size :
       /\ files = SerialLog(PostgresLogger_init(
                              [g \in Generations \cup Unnamed |-> NoFile]), k)
       /\ clock = k
  /\ lastLog = NoLog
  /\ hist = NoHist
  /\ qin = NoInput
  /\ qout = NoStatement
  /\ db = NoTable
  /\ conns = 0
  /\ last = Idle
  /\ race = NoRace

\* a step that changes no file
RaceStay(r) ==
  /\ race' = r
  /\ UNCHANGED <<files, clock, lastLog, hist, qin, qout, db, conns, last>>

\* a step that leaves the files fs
RaceWrite(r, fs) ==
  /\ race' = r
  /\ files' = Close(fs, r.proc)
  /\ UNCHANGED <<clock, lastLog, hist, qin, qout, db, conns, last>>

\* caller c enters log()
RaceLog(c) ==
  /\ race.proc[c].pc = "idle"
  /\ RaceStay([Step(race, c,
                    [NotCalling EXCEPT !.pc = "exists", !.entry = files])
               EXCEPT !.latest = c])

\* os.path.exists(self.log_file)
RaceExists(c) ==
  /\ race.proc[c].pc = "exists"
  /\ RaceStay(Step(race, c,
                   [race.proc[c] EXCEPT
                      !.pc = IF files[0].exists THEN "getsize"
                             ELSE "open_a"]))

\* os.path.getsize(self.log_file) > self.max_log_size, in bytes: the
\* threshold is max_log_size header rows, which as many rows do not exceed
\* and one row more does
RaceGetsize(c) ==
  /\ race.proc[c].pc = "getsize"
  /\ RaceStay(Step(race, c,
                   IF ~files[0].exists
                   THEN [race.proc[c] EXCEPT !.pc = "raised"]
                   ELSE IF Bytes(files[0].lines)
                             > max_log_size * LineSize(HeaderRow)
                   THEN LoopFrom(race.proc[c], max_backups - 1)
                   ELSE [race.proc[c] EXCEPT !.pc = "open_a"]))

\* os.path.exists(old_backup)
RaceBackupExists(c) ==
  /\ race.proc[c].pc = "backup_exists"
  /\ RaceStay(Step(race, c,
                   IF files[race.proc[c].i].exists
                   THEN [race.proc[c] EXCEPT !.pc = "shift"]
                   ELSE LoopFrom(race.proc[c], race.proc[c].i - 1)))

\* os.rename(src, src + 1), the first call of shutil.move: on OSError
\* shutil.move goes on to copy the file
RaceRename(c, src) ==
  IF ~files[src].exists
  THEN RaceStay(Step(race, c, [race.proc[c] EXCEPT !.pc = "copy_open_src"]))
  ELSE RaceWrite([Step(race, c, Moved(race.proc[c]))
                  EXCEPT !.proc = Rename(@, src, src + 1)],
                 Move(Orphan(files, race.proc, src + 1), src, src + 1))

\* os.remove(old_backup) or shutil.move(old_backup, new_backup)
RaceShift(c) ==
  /\ race.proc[c].pc = "shift"
  /\ \E i \in {race.proc[c].i} :
       IF i # max_backups - 1 THEN RaceRename(c, i)
       ELSE IF ~files[i].exists
       THEN RaceStay(Step(race, c, [race.proc[c] EXCEPT !.pc = "raised"]))
       ELSE RaceWrite([Step(race, c, LoopFrom(race.proc[c], i - 1))
                       EXCEPT !.removed = @ + 1, !.proc = Unlink(@, i)],
                      Remove(Orphan(files, race.proc, i), i))

\* shutil.move(self.log_file, f"{self.log_file}.1")
RaceMoveActive(c) ==
  /\ race.proc[c].pc = "move_active"
  /\ RaceRename(c, 0)

\* copyfile, called by shutil.move after the rename failed: open(src, 'rb')
RaceCopyOpenSrc(c) ==
  /\ race.proc[c].pc = "copy_open_src"
  /\ RaceStay(Step(race, c,
                   IF ~files[race.proc[c].i].exists
                   THEN [race.proc[c] EXCEPT !.pc = "raised"]
                   ELSE [race.proc[c] EXCEPT !.pc = "copy_open_dst",
                                             !.rfd = race.proc[c].i]))

\* copyfile: open(dst, 'wb')
RaceCopyOpenDst(c) ==
  /\ race.proc[c].pc = "copy_open_dst"
  /\ RaceWrite(Step(race, c,
                    [race.proc[c] EXCEPT !.pc = "copy_data", !.offset = 0,
                                         !.fd = race.proc[c].i + 1]),
               Truncate(files, race.proc[c].i + 1))

\* copyfile: one os.sendfile(fd, rfd, offset, blocksize) of the loop that
\* ends when nothing is sent.  The bytes of the file open at rfd from offset
\* on go to the file open at fd, at the position of fd, which is the number
\* of bytes sent before
RaceCopyData(c) ==
  /\ race.proc[c].pc = "copy_data"
  /\ \E p \in {race.proc[c]} :
       IF Bytes(files[p.rfd].lines) > p.offset
       THEN RaceWrite(Step(race, c,
                           [p EXCEPT !.offset = Bytes(files[p.rfd].lines)]),
                      [files EXCEPT
                         ![p.fd].lines =
                           WriteAt(@, p.offset,
                                   Slice(files[p.rfd].lines, p.offset,
                                         Bytes(files[p.rfd].lines)))])
       ELSE RaceStay(Step(race, c, [p EXCEPT !.pc = "close_dst"]))

\* the with blocks close the file: that of copyfile opened with 'wb', then
\* the one opened with 'rb'; that of _rotate_logs; that of log
RaceClose(c) ==
  /\ race.proc[c].pc \in {"close_dst", "close_src", "close_w", "close_a"}
  /\ RaceWrite(Step(race, c,
                    CASE race.proc[c].pc = "close_dst" ->
                           [race.proc[c] EXCEPT !.pc = "close_src",
                                                !.fd = NoHandle]
                      [] race.proc[c].pc = "close_src" ->
                           [race.proc[c] EXCEPT !.pc = "copy_stat",
                                                !.rfd = NoHandle]
                      [] race.proc[c].pc = "close_w" ->
                           [race.proc[c] EXCEPT !.pc = "open_a",
                                                !.fd = NoHandle]
                      [] race.proc[c].pc = "close_a" ->
                           [race.proc[c] EXCEPT !.pc = "done",
                                                !.fd = NoHandle]),
               files)

\* copystat(src, dst), one call at a time: os.stat(src), os.utime(dst),
\* os.listxattr(src), os.chmod(dst); each raises when its file is absent
RaceCopyStat(c) ==
  /\ race.proc[c].pc \in {"copy_stat", "copy_utime", "copy_listxattr",
                         "copy_chmod"}
  /\ RaceStay(Step(race, c,
                   IF ~files[IF race.proc[c].pc \in {"copy_stat",
                                                     "copy_listxattr"}
                             THEN race.proc[c].i
                             ELSE race.proc[c].i + 1].exists
                   THEN [race.proc[c] EXCEPT !.pc = "raised"]
                   ELSE [race.proc[c] EXCEPT
                           !.pc = CASE @ = "copy_stat" -> "copy_utime"
                                    [] @ = "copy_utime" -> "copy_listxattr"
                                    [] @ = "copy_listxattr" -> "copy_chmod"
                                    [] @ = "copy_chmod" -> "copy_unlink"]))

\* os.unlink(src), the last call of shutil.move
RaceCopyUnlink(c) ==
  /\ race.proc[c].pc = "copy_unlink"
  /\ \E i \in {race.proc[c].i} :
       IF ~files[i].exists
       THEN RaceStay(Step(race, c, [race.proc[c] EXCEPT !.pc = "raised"]))
       ELSE RaceWrite([Step(race, c, Moved(race.proc[c]))
                       EXCEPT !.proc = Unlink(@, i)],
                      Remove(Orphan(files, race.proc, i), i))

\* open(self.log_file, 'w')
RaceOpenWrite(c) ==
  /\ race.proc[c].pc = "open_w"
  /\ RaceWrite(Step(race, c,
                    [race.proc[c] EXCEPT !.pc = "write_header", !.fd = 0]),
               Truncate(files, 0))

\* writer.writerow(header), flushed when the with block ends
RaceWriteHeader(c) ==
  /\ race.proc[c].pc = "write_header"
  /\ RaceWrite(Step(race, c, [race.proc[c] EXCEPT !.pc = "close_w"]),
               WriteAtStart(files, race.proc[c].fd, HeaderRow))

\* open(self.log_file, 'a'), which creates the file when it is absent
RaceOpenAppend(c) ==
  /\ race.proc[c].pc = "open_a"
  /\ RaceWrite(Step(race, c,
                    [race.proc[c] EXCEPT !.pc = "now", !.fd = 0]),
               IF files[0].exists THEN files ELSE Truncate(files, 0))

\* datetime.now().isoformat(), evaluated for writer.writerow: time has
\* passed, and the reading falls on a whole second or not
RaceNow(c) ==
  /\ race.proc[c].pc = "now"
  /\ \E ts \in clock + 1 .. clock + Second :
       /\ race' = Step(race, c,
                       [race.proc[c] EXCEPT
                          !.pc = "write_row",
                          !.row = LogRow(ts, "INSERT", "users", "SUCCESS",
                                         1, "")])
       /\ clock' = ts
  /\ UNCHANGED <<files, lastLog, hist, qin, qout, db, conns, last>>

\* writer.writerow(row), flushed when the with block ends
RaceWriteRow(c) ==
  /\ race.proc[c].pc = "write_row"
  /\ RaceWrite([Step(race, c, [race.proc[c] EXCEPT !.pc = "close_a"])
                EXCEPT !.written = @ \cup {race.proc[c].row}],
               WriteAtEnd(files, race.proc[c].fd, race.proc[c].row))

NextRace ==
  \/ \E c \in Callers : RaceLog(c)
  \/ \E c \in Callers : RaceExists(c)
  \/ \E c \in Callers : RaceGetsize(c)
  \/ \E c \in Callers : RaceBackupExists(c)
  \/ \E c \in Callers : RaceShift(c)
  \/ \E c \in Callers : RaceMoveActive(c)
  \/ \E c \in Callers : RaceCopyOpenSrc(c)
  \/ \E c \in Callers : RaceCopyOpenDst(c)
  \/ \E c \in Callers : RaceCopyData(c)
  \/ \E c \in Callers : RaceCopyStat(c)
  \/ \E c \in Callers : RaceCopyUnlink(c)
  \/ \E c \in Callers : RaceOpenWrite(c)
  \/ \E c \in Callers : RaceWriteHeader(c)
  \/ \E c \in Callers : RaceOpenAppend(c)
  \/ \E c \in Callers : RaceNow(c)
  \/ \E c \in Callers : RaceWriteRow(c)
  \/ \E c \in Callers : RaceClose(c)

SpecRace == InitRace /\ [][NextRace]_vars

\* ------------------------------------------------------ the Handler's callers
Call(op) == [NoInput EXCEPT !.op = op, !.table = "users"]

HandlerInputs ==
  LET HandlerPredicates == { <<>>, <<Item("id", 1)>> } IN
  { [Call("create_table") EXCEPT
       !.data = <<Item("id", "SERIAL PRIMARY KEY"),
                  Item("name", "VARCHAR(100)"), Item("age", "INTEGER")>>] }
  \cup { [Call("insert_record") EXCEPT !.data = d] :
           d \in {<<>>, <<Item("name", 1)>>,
                  <<Item("name", 2), Item("age", 1)>>} }
  \cup { [Call("bulk_insert") EXCEPT !.records = rs] :
           rs \in {<<>>, <<<<Item("name", 1)>>>>,
                   <<<<Item("name", 1)>>, <<Item("name", 2)>>>>,
                   <<<<Item("name", 1), Item("age", 2)>>,
                     <<Item("name", 2)>>>>} }
  \cup { [Call("select_records") EXCEPT !.conditions = c, !.limit = l] :
           c \in HandlerPredicates, l \in {NoLimit, Limit(0), Limit(1)} }
  \cup { [Call("select_records") EXCEPT
            !.conditions = <<Item("age", Null)>>] }
  \cup { [Call("select_records") EXCEPT !.columns = <<"name">>,
                                        !.order_by = "id DESC",
                                        !.output_type = "pd.df"] }
  \cup { [Call("update_records") EXCEPT !.data = <<Item("name", 2)>>,
                                        !.conditions = c] :
           c \in HandlerPredicates }
  \cup { [Call("delete_records") EXCEPT !.conditions = c] :
           c \in HandlerPredicates }
  \cup { [Call("execute_raw_query") EXCEPT !.query = q] : q \in RawQueries }

\* one fault at a time: the first fault ends the invocation; the Logger
\* faults met are those of the two opens
Envs(in) ==
  {Env(FALSE, "none", 0, "none")}
  \cup { Env(TRUE, "execute", k, "none") : k \in 1 .. Len(Records(in)) }
  \cup { Env(TRUE, "fetch", k, "none") :
           k \in 1 .. (IF Fetches(in) THEN Len(Records(in)) ELSE 0) }
  \cup (IF Commits(in) THEN {Env(TRUE, "commit", 0, "none")} ELSE {})
  \cup { Env(TRUE, "none", 0, lf) : lf \in {"none", "create", "append"} }

Init ==
  /\ files = PostgresLogger_init([g \in Generations |-> NoFile])
  /\ clock = 0
  /\ lastLog = NoLog
  /\ hist = NoHist
  /\ qin = NoInput
  /\ qout = NoStatement
  /\ db \in {NoTable, EmptyTable}
  /\ conns = 0
  /\ last = Idle
  /\ race = NoRace

\* PostgresHandler(...): keeps the parameters and constructs a Logger
PostgresHandler_init ==
  /\ clock < MaxOps
  /\ clock' = clock + 1
  /\ files' = PostgresLogger_init(files)
  /\ qin' = [NoInput EXCEPT !.op = "__init__"]
  /\ qout' = NoStatement
  /\ lastLog' = [NoLog EXCEPT !.call = "init"]
  /\ last' = Idle
  /\ UNCHANGED <<hist, db, conns, race>>

\* the state an invocation leaves, given how it ended
InvocationEnds(in, env, out) ==
  /\ clock' = clock + 1
  /\ files' = out.fs
  /\ db' = out.db
  /\ conns' = conns + CountOf(out.trace, "connect")
                    - CountOf(out.trace, "close")
  /\ qin' = in
  /\ qout' = Executed(in, out.trace)
  /\ lastLog' = out.logged
  /\ hist' = [rotations |-> hist.rotations
                             + (IF out.logged.rotated THEN 1 ELSE 0),
              faults |-> hist.faults + (IF out.logged.ok THEN 0 ELSE 1),
              invocations |-> hist.invocations + 1]
  /\ last' = [raised |-> out.raised, cause |-> out.cause, ret |-> out.ret,
              trace |-> out.trace]
  /\ UNCHANGED race

Invocation(in, env) ==
  /\ clock < MaxOps
  /\ \E out \in {Invoke(in, env, files, db, clock + 1)} :
       InvocationEnds(in, env, out)

create_table ==
  \E in \in HandlerInputs : \E env \in Envs(in) :
    in.op = "create_table" /\ Invocation(in, env)

insert_record ==
  \E in \in HandlerInputs : \E env \in Envs(in) :
    in.op = "insert_record" /\ Invocation(in, env)

bulk_insert ==
  \E in \in HandlerInputs : \E env \in Envs(in) :
    in.op = "bulk_insert" /\ Invocation(in, env)

select_records ==
  \E in \in HandlerInputs : \E env \in Envs(in) :
    in.op = "select_records" /\ Invocation(in, env)

update_records ==
  \E in \in HandlerInputs : \E env \in Envs(in) :
    in.op = "update_records" /\ Invocation(in, env)

delete_records ==
  \E in \in HandlerInputs : \E env \in Envs(in) :
    in.op = "delete_records" /\ Invocation(in, env)

execute_raw_query ==
  \E in \in HandlerInputs : \E env \in Envs(in) :
    in.op = "execute_raw_query" /\ Invocation(in, env)

Next ==
  \/ PostgresHandler_init
  \/ create_table
  \/ insert_record
  \/ bulk_insert
  \/ select_records
  \/ update_records
  \/ delete_records
  \/ execute_raw_query

Spec == Init /\ [][Next]_vars

\* =================================================================== claims
Backups == Generations \ {0}

NumFiles(fs) == Cardinality({g \in Generations : fs[g].exists})

NumBackups(fs) == Cardinality({g \in Backups : fs[g].exists})

\* generation i of fs is in no file of fs2
Lost(fs, fs2, i) == fs[i].exists /\ \A j \in Generations : fs2[j] # fs[i]

HasHeader(f) == f.exists /\ Len(f.lines) >= 1 /\ f.lines[1] = HeaderRow

Min(a, b) == IF a <= b THEN a ELSE b

HandlerOperations ==
  {"create_table", "insert_record", "bulk_insert", "select_records",
   "update_records", "delete_records", "execute_raw_query"}

\* the records (rows other than the header) in the active file and backups
RecordsOnDisk(fs) ==
  LET Records_in(f) ==
        Cardinality({i \in 1 .. Len(f.lines) : ~f.lines[i].hdr})
      RECURSIVE Sum(_)
      Sum(g) == IF g < 0 THEN 0 ELSE Records_in(fs[g]) + Sum(g - 1)
  IN Sum(max_backups + 1)

\* C1 (as claimed): when the connection is established and a statement then
\* fails with a database error, the operation does not raise, appends an
\* ERROR record carrying the error's message and returns its failure value.
C1_StatementErrorAbsorbed ==
  (qin.op \in HandlerOperations
   /\ last.cause \in {"execute", "fetch", "commit"}) =>
     /\ last.raised = ""
     /\ last.ret = FailureValue(qin)
     /\ lastLog.call = "record" /\ lastLog.ok
     /\ lastLog.row.status = "ERROR"
     /\ lastLog.row.error = last.cause

\* C2 (as claimed): an operation raises exactly when establishing the
\* connection failed; a failure of statement execution, fetch or commit is
\* never raised to the caller.
C2_RaisesOnlyOnConnectFailure ==
  qin.op \in HandlerOperations =>
    /\ last.cause = "connect" => last.raised = "Exception"
    /\ last.cause \in {"execute", "fetch", "commit"} => last.raised = ""

\* C3 (as claimed): every invocation appends exactly one record, so after n
\* invocations the log files hold n records as long as no backup has been
\* evicted.
C3_OneRecordPerInvocation ==
  hist.rotations < max_backups - 1 =>
    RecordsOnDisk(files) = hist.invocations

\* C4: an operation opens at most one connection and closes it on every exit
\* path; no connection is open after any sequence of operations.
C4_ConnectionsClosed ==
  /\ conns = 0
  /\ CountOf(last.trace, "connect") <= 1
  /\ CountOf(last.trace, "close") = CountOf(last.trace, "connect")

\* an operation left its scope by a logging error after it had connected
C4_Witness ==
  /\ qin.op = "bulk_insert"
  /\ last.raised = "OSError"
  /\ CountOf(last.trace, "connect") = 1
  /\ conns = 0

\* C5 (as claimed): a failure inside the Logger's record step never raises
\* past the operation and leaves its result what it would have been had
\* logging succeeded.
C5_LoggingFaultHarmless ==
  [][(clock' = clock + 1 /\ last'.cause = "log") =>
       /\ last'.raised = ""
       /\ last'.ret = Invoke(qin', NoFaults, files, db, clock + 1).ret]_vars

\* C6: after any sequence of record() calls of a single caller the number of
\* log files (active file plus backups) never exceeds max_backups + 1, and a
\* call that removes a backup generation removes the one with the highest
\* index, the oldest retained one.
C6_BoundedFilesOldestEvicted ==
  /\ [](NumFiles(files) <= max_backups + 1)
  /\ [][\A i \in Backups :
          Lost(files, files', i) =>
            \A j \in Backups : j > i => ~files[j].exists]_vars

\* a fourth rotation has evicted a generation and the chain is still bounded
C6_Witness ==
  /\ hist.rotations >= 4
  /\ lastLog.rotated
  /\ files[1].exists /\ files[2].exists

\* C7 (as claimed): with max_backups = 3, after k rotations exactly min(k, 3)
\* backup generations are retained, so none is deleted while fewer than
\* max_backups exist.
C7_RetainsMaxBackups ==
  hist.faults = 0 => NumBackups(files) = Min(hist.rotations, max_backups)

\* C8: a record() call that finds the active file over the threshold makes
\* exactly one new backup: .1 is the previous active file, every surviving
\* generation i is at i + 1 unchanged, and the active file is the header
\* followed by the new record.
C8_RotationStep ==
  [][(lastLog'.call = "record" /\ lastLog'.ok /\ clock' = clock + 1
      /\ NeedsRotation(files)) =>
       /\ files'[1] = files[0]
       /\ \A i \in Backups :
            (files[i].exists /\ ~Lost(files, files', i)) =>
              (i + 1 \in Generations /\ files'[i + 1] = files[i])
       /\ files'[0] = [exists |-> TRUE,
                       lines |-> <<HeaderRow, lastLog'.row>>]
       /\ NumBackups(files') <= NumBackups(files) + 1]_vars

\* a rotation with a surviving older generation has just completed
C8_Witness ==
  /\ lastLog.call = "record" /\ lastLog.rotated
  /\ files[1].exists /\ files[2].exists
  /\ files[0].lines = <<HeaderRow, lastLog.row>>

\* C9 (as claimed): between Logger calls the active file exists and its first
\* line is the header row, whatever file-system state initialize met.
C9_ActiveFileHasHeader == lastLog.ok => HasHeader(files[0])

CountKind(tokens, kind) ==
  Cardinality({i \in 1 .. Len(tokens) : tokens[i].k = kind})

\* C10 (as claimed): no statement built by insert_record, bulk_insert,
\* select_records, update_records or delete_records has a caller-supplied
\* value in its text, and its %s placeholders are as many as its parameters.
C10_ValuesOnlyBound ==
  \A i \in 1 .. Len(qout) :
    /\ CountKind(qout[i].query, "lit") = 0
    /\ CountKind(qout[i].query, "ph") = Len(qout[i].params)

\* C10 (amended): inserted values, new values and predicate values are never
\* in the text; the only value formatted into the text is a non-zero row
\* limit, as the last token after LIMIT; placeholders are as many as
\* parameters in every statement except a bulk_insert record whose number of
\* columns differs from the first record's.
C10_ValuesBoundExceptLimit ==
  \A i \in 1 .. Len(qout) :
    LET q == qout[i].query IN
    /\ \A t \in 1 .. Len(q) :
         q[t].k = "lit" =>
           /\ qin.op = "select_records"
           /\ qin.limit.given /\ qin.limit.n # 0 /\ q[t].n = qin.limit.n
           /\ t = Len(q) /\ q[t - 1] = Kw("LIMIT")
    /\ (qin.op = "bulk_insert" =>
          Len(qin.records[i]) = Len(qin.records[1])) =>
         CountKind(q, "ph") = Len(qout[i].params)

\* a select with two predicate values and a row limit has been built
C10_Witness ==
  /\ qin.op = "select_records"
  /\ Len(qout) = 1
  /\ Len(qout[1].params) = 2
  /\ qin.limit = Limit(2)

\* the text begins with SELECT once leading whitespace is skipped, letters
\* compared without regard to case
BeginsWithSelect(text) ==
  \E i \in 1 .. Len(text) :
    /\ \A j \in 1 .. i - 1 : text[j] \in Whitespace
    /\ Len(text) >= i + 5
    /\ \A j \in 1 .. 6 :
         \/ text[i + j - 1] = SELECT[j]
         \/ text[i + j - 1] = SELECT[j] + 32

\* C11: an execute_raw_query whose statement executes successfully returns
\* the fetched rows, logs SUCCESS with their number and issues no commit when
\* its text begins with SELECT (whitespace stripped, case ignored); for any
\* other text it issues exactly one commit, logs SUCCESS with the cursor's
\* row count and returns None.
C11_RawQueryBySelectPrefix ==
  [][(clock' = clock + 1 /\ qin'.op = "execute_raw_query"
      /\ last'.raised = "") =>
       /\ lastLog'.call = "record"
       /\ lastLog'.row.status = "SUCCESS"
       /\ lastLog'.row.operation = "RAW_QUERY"
       /\ IF BeginsWithSelect(qin'.query)
          THEN /\ last'.ret = RetList(<<<<1>>>>)
               /\ lastLog'.row.affected_rows = Len(last'.ret.rows)
               /\ CountOf(last'.trace, "commit") = 0
               /\ db'.rows = db.rows
          ELSE /\ CountOf(last'.trace, "commit") = 1
               /\ last'.ret = RetNone
               /\ lastLog'.row.affected_rows = Len(db.rows)
               /\ db'.rows = <<>>]_vars

\* a lower-case SELECT between newlines has returned its row
C11_Witness ==
  /\ qin.op = "execute_raw_query"
  /\ qin.query = RawPaddedSelect
  /\ last.raised = ""
  /\ last.ret = RetList(<<<<1>>>>)
  /\ lastLog.row.affected_rows = 1

\* connect, one execute and fetch per record, commit, log, close
RECURSIVE BulkTrace(_)
BulkTrace(n) ==
  IF n = 0 THEN <<"commit", "log", "close">>
  ELSE <<"execute", "fetch">> \o BulkTrace(n - 1)

\* C12: a successful bulk_insert of n >= 1 records uses one connection,
\* executes n INSERT statements in input order, commits once and only after
\* the n-th statement, returns the n generated identifiers in the order of
\* the input records and appends one SUCCESS record with affected_rows = n.
C12_BulkInsertSuccess ==
  [][(clock' = clock + 1 /\ qin'.op = "bulk_insert"
      /\ Len(qin'.records) >= 1 /\ last'.raised = "") =>
       LET n == Len(qin'.records) IN
       /\ last'.trace = <<"connect">> \o BulkTrace(n)
       /\ Len(qout') = n
       /\ \A i \in 1 .. n : qout'[i].params = DictValues(qin'.records[i])
       /\ last'.ret.kind = "list" /\ Len(last'.ret.rows) = n
       /\ Len(db'.rows) = Len(db.rows) + n
       /\ \A i \in 1 .. n :
            /\ last'.ret.rows[i] = db.nextId + i - 1
            /\ db'.rows[Len(db.rows) + i].id = last'.ret.rows[i]
            /\ db'.rows[Len(db.rows) + i].name
                 = DictGet(qin'.records[i], "name")
       /\ lastLog'.call = "record"
       /\ lastLog'.row.status = "SUCCESS"
       /\ lastLog'.row.operation = "BULK_INSERT"
       /\ lastLog'.row.affected_rows = n
       /\ RecordsOnDisk(files') <= RecordsOnDisk(files) + 1]_vars

\* two records have been inserted by one bulk_insert
C12_Witness ==
  /\ qin.op = "bulk_insert"
  /\ Len(qin.records) = 2
  /\ last.raised = ""
  /\ Len(last.ret.rows) = 2
  /\ CountOf(last.trace, "commit") = 1

\* C13: bulk_insert with an empty input sequence returns the empty sequence,
\* opens no connection, executes no statement, leaves the database and the
\* connection count as they were and writes no record (or one record with
\* affected_rows = 0).
C13_EmptyBulkInsertNoOp ==
  [][(clock' = clock + 1 /\ qin'.op = "bulk_insert"
      /\ Len(qin'.records) = 0) =>
       /\ last'.raised = ""
       /\ last'.ret = RetList(<<>>)
       /\ last'.trace = <<>>
       /\ qout' = <<>>
       /\ db' = db
       /\ conns' = conns
       /\ \/ files' = files
          \/ /\ lastLog'.call = "record"
             /\ lastLog'.row.affected_rows = 0
             /\ RecordsOnDisk(files') <= RecordsOnDisk(files) + 1]_vars

\* an empty bulk_insert has returned on a table that holds a row
C13_Witness ==
  /\ qin.op = "bulk_insert"
  /\ Len(qin.records) = 0
  /\ last.ret = RetList(<<>>)
  /\ Len(db.rows) = 1
  /\ hist.invocations = 2

\* a backup that holds the header and no record
HeaderOnlyBackup(fs) ==
  \E i \in Backups : fs[i].exists /\ fs[i].lines = <<HeaderRow>>

\* a row a caller has appended is in no file
LostWrite(fs, written) ==
  \E row \in written :
    \A g \in Generations : \A n \in 1 .. Len(fs[g].lines) : fs[g].lines[n] # row

\* the active file begins with a record
HeaderlessRecord(fs) ==
  fs[0].exists /\ Len(fs[0].lines) >= 1 /\ fs[0].lines[1] # HeaderRow

\* C14: check-size, rotate, append is not atomic.  The corrupt states (a
\* header-only backup, a written record in no file, a record with no header
\* before it) occur only when the two callers' steps interleave, and a call
\* that ran alone leaves what log() leaves; with interleaving they are
\* reached (the witnesses).
C14_CorruptionOnlyByInterleaving ==
  /\ (HeaderOnlyBackup(files) \/ LostWrite(files, race.written)
        \/ HeaderlessRecord(files)) => race.overlapped
  /\ (~race.overlapped /\ race.proc[race.latest].pc = "done") =>
        files = log(race.proc[race.latest].entry, race.proc[race.latest].row,
                    "none").fs
  /\ ~race.overlapped => \A c \in Callers : race.proc[c].pc # "raised"

\* one threshold crossing, two rotations: both callers are done, .1 holds
\* only the header and each caller has removed a generation
C14_Witness ==
  /\ \A c \in Callers : race.proc[c].pc = "done"
  /\ files[1].exists /\ files[1].lines = <<HeaderRow>>
  /\ race.removed = 2

\* a record one caller has written is in no file
C14_WitnessLostWrite ==
  /\ \A c \in Callers : race.proc[c].pc = "done"
  /\ LostWrite(files, race.written)

\* the active file holds a record with no header before it: one caller has
\* written its row into the file the other has opened with 'w' and not yet
\* written the header to
C14_WitnessHeaderless ==
  /\ \E c \in Callers : race.proc[c].pc = "done"
  /\ \E c \in Callers : race.proc[c].pc = "write_header"
  /\ HeaderlessRecord(files)
  /\ files[0].lines[1] \in race.written

\* C15: an insert_record that succeeds followed by select_records with the
\* predicate id = <returned identifier> returns exactly one row, whose values
\* are the identifier and the inserted values (NULL for a column not given).
C15_InsertThenSelectById ==
  [][(qin.op = "insert_record" /\ last.raised = "" /\ last.ret.kind = "int"
      /\ clock' = clock + 1 /\ qin'.op = "select_records"
      /\ qin'.conditions = <<Item("id", last.ret.n)>>
      /\ last'.raised = "") =>
       LET inserted == [id |-> last.ret.n, name |-> DictGet(qin.data, "name"),
                        age |-> DictGet(qin.data, "age")]
           cs == IF Len(qin'.columns) > 0 THEN qin'.columns ELSE AllColumns
       IN last'.ret.rows = <<[i \in 1 .. Len(cs) |-> inserted[cs[i]]]>>]_vars

\* the row inserted with name = 2 and age = 1 has been selected by its id
C15_Witness ==
  /\ qin.op = "select_records"
  /\ qin.conditions = <<Item("id", 1)>>
  /\ last.raised = ""
  /\ last.ret.rows = <<<<1, 2, 1>>>>

\* C16: Logger initialization on a path whose log file does not exist
\* creates the file holding exactly the header row; on a path whose log file
\* exists and is non-empty it changes no file.
C16_InitIdempotent ==
  [][(clock' = clock + 1 /\ lastLog'.call = "init") =>
       /\ ~files[0].exists =>
            files' = [files EXCEPT
                        ![0] = [exists |-> TRUE, lines |-> <<HeaderRow>>]]
       /\ (files[0].exists /\ FileSize(files[0]) > 0) => files' = files]_vars

\* a Logger has been initialized on a path that holds records and a backup
C16_Witness ==
  /\ lastLog.call = "init"
  /\ Len(files[0].lines) >= 2
  /\ files[1].exists
  /\ hist.rotations >= 1

\* C17 (as claimed): for every limit n >= 0 passed to select_records the
\* statement ends with LIMIT n and a successful call returns at most n rows;
\* the statement has no LIMIT clause only when no limit was passed.
C17_EveryLimitApplied ==
  (qin.op = "select_records" /\ Len(qout) = 1) =>
    LET q == qout[1].query IN
    /\ qin.limit.given =>
         /\ Len(q) >= 2
         /\ q[Len(q) - 1] = Kw("LIMIT")
         /\ q[Len(q)].n = qin.limit.n
         /\ last.raised = "" => Len(last.ret.rows) <= qin.limit.n
    /\ ~qin.limit.given => \A t \in 1 .. Len(q) : q[t] # Kw("LIMIT")

\* C18: a record() call that finds the active file's size at most
\* max_log_size (equal to it included) changes no backup, keeps every line
\* of the active file and adds exactly one row at its end.
C18_NoRotationUpToThreshold ==
  [][(clock' = clock + 1 /\ lastLog'.call = "record" /\ lastLog'.ok
      /\ files[0].exists /\ FileSize(files[0]) <= max_log_size) =>
       /\ \A i \in Backups : files'[i] = files[i]
       /\ files'[0].exists
       /\ files'[0].lines = Append(files[0].lines, lastLog'.row)]_vars

\* a row has been appended, with no rotation, to an active file whose size
\* was exactly the threshold, with backups in place
C18_Witness ==
  /\ lastLog.call = "record" /\ lastLog.ok /\ ~lastLog.rotated
  /\ FileSize(files[0]) = max_log_size + 1
  /\ files[0].lines[FileSize(files[0])] = lastLog.row
  /\ HasHeader(files[0])
  /\ files[1].exists /\ files[2].exists

\* C19: after any bulk_insert the table holds all n new rows or none of
\* them; when the INSERT of some record or the commit fails no commit takes
\* effect, the connection is closed and no record is persisted.
C19_BulkInsertAllOrNothing ==
  [][(clock' = clock + 1 /\ qin'.op = "bulk_insert") =>
       /\ \/ db'.rows = db.rows
          \/ /\ Len(db'.rows) = Len(db.rows) + Len(qin'.records)
             /\ SubSeq(db'.rows, 1, Len(db.rows)) = db.rows
             /\ CountOf(last'.trace, "commit") = 1
       /\ last'.cause \in {"execute", "fetch", "commit"} =>
            /\ db'.rows = db.rows
            /\ db'.exists = db.exists
            /\ CountOf(last'.trace, "commit") = 0
            /\ CountOf(last'.trace, "close") = 1
            /\ conns' = 0]_vars

\* the INSERT of the second of two records has failed after the first ran,
\* and the table holds neither
C19_Witness ==
  /\ qin.op = "bulk_insert"
  /\ Len(qin.records) = 2
  /\ last.cause = "execute"
  /\ last.trace = <<"connect", "execute", "fetch", "execute_failed", "close">>
  /\ db.exists /\ db.rows = <<>>

\* the operations that change the database
WriteCall(in) ==
  \/ in.op \in {"create_table", "insert_record", "bulk_insert",
                "update_records", "delete_records"}
  \/ in.op = "execute_raw_query" /\ ~BeginsWithSelect(in.query)

\* connect, the statements, commit, log, close
RECURSIVE WriteTrace(_, _)
WriteTrace(n, fetches) ==
  IF n = 0 THEN <<"commit", "log", "close">>
  ELSE (IF fetches THEN <<"execute", "fetch">> ELSE <<"execute">>)
       \o WriteTrace(n - 1, fetches)

\* C20: in every write operation the Logger is called only after a commit
\* that succeeded and before close; an operation that leaves a SUCCESS record
\* has made its calls in the order connect, execute, commit, log, close.
C20_SuccessLoggedAfterCommit ==
  (WriteCall(qin) /\ Len(last.trace) > 0) =>
    /\ \A i \in 1 .. Len(last.trace) :
         last.trace[i] \in {"log", "log_failed"} =>
           /\ i > 1 /\ last.trace[i - 1] = "commit"
           /\ i < Len(last.trace) /\ last.trace[i + 1] = "close"
    /\ (lastLog.call = "record" /\ lastLog.ok) =>
         /\ lastLog.row.status = "SUCCESS"
         /\ last.trace =
              <<"connect">>
              \o WriteTrace(IF qin.op = "bulk_insert" THEN Len(qin.records)
                            ELSE 1,
                            qin.op \in {"insert_record", "bulk_insert"})

\* an update has connected, executed, committed, logged and closed
C20_Witness ==
  /\ qin.op = "update_records"
  /\ last.trace = <<"connect", "execute", "commit", "log", "close">>
  /\ lastLog.call = "record" /\ lastLog.row.status = "SUCCESS"
  /\ lastLog.row.affected_rows = 1

====
